---- MODULE Spec2Model ----
(***************************************************************************)
(* Model of the Free Sleep Pod integration: the HTTP client (api.py), the  *)
(* device-state and firmware coordinators (coordinator.py), the            *)
(* write-through helpers of Pod and Side (pod.py) and the entity accessors *)
(* that read the cached snapshot (climate.py).                             *)
(*                                                                         *)
(* A JSON object / Python dict is a function from its keys; the empty dict *)
(* is the function with the empty domain.  Python None is the one-key      *)
(* object NoneValue.                                                       *)
(***************************************************************************)
EXTENDS Integers, Sequences, FiniteSets, TLC

VARIABLES
  dev,                  \* the device: its status and settings resources
  devEpoch,             \* number of writes the device has applied so far
  data,                 \* FreeSleepCoordinator.data (the cached snapshot)
  last_update_success,  \* FreeSleepCoordinator.last_update_success
  rpc,                  \* position of the device-state refresh
  fetchRes,             \* results of the five fetches of the refresh
  gatherExc,            \* first exception raised inside gather
  lastRefresh,          \* outcome of the last _async_update_data
  wr,                   \* the write-through action in progress
  seen,                 \* snapshot each observer received last
  notifyCount,          \* number of observer notifications so far
  prov,                 \* provenance of the stored snapshot
  budget,               \* operations still allowed to start
  fwpc,                 \* position of the firmware refresh
  fwRes,                \* results of the two firmware fetches
  fwData,               \* FirmwareUpdateCoordinator.data
  fwLast,               \* outcome of the last firmware _async_update_data
  apiCall,              \* last direct call of FreeSleepAPI.get / post
  conv,                 \* last call of unit_to_fahrenheit
  scheduleObject,       \* the schedule object of the caller, as it is now
  scheduleCalls,        \* the calls of schedule_to_fahrenheit made with it
  setupCall,            \* last call of validate_setup
  reader,               \* the snapshot object a reader holds
  callers,              \* the entity actions and helper calls in progress
  svc,                  \* the set_schedule service call in progress
  hassData,             \* hass.data[DOMAIN]: entry id -> (pod, coordinator)
  entry                 \* the config entry: its state and the call on it

vars == <<dev, devEpoch, data, last_update_success, rpc, fetchRes, gatherExc,
          lastRefresh, wr, seen, notifyCount, prov, budget,
          fwpc, fwRes, fwData, fwLast, apiCall,
          conv, scheduleObject, scheduleCalls, setupCall, reader,
          callers, svc, hassData, entry>>

coordVars == <<data, last_update_success, rpc, fetchRes, gatherExc,
               lastRefresh, seen, notifyCount, prov>>
fwVars == <<fwpc, fwRes, fwData, fwLast>>
utilVars == <<conv, scheduleObject, scheduleCalls, setupCall>>
auxVars == <<reader>>
hostVars == <<callers, svc, hassData, entry>>

----------------------------------------------------------------------------
(* Bounds *)

MaxRefreshes == 1
MaxWrites == 1
MaxFirmwareRefreshes == 2

----------------------------------------------------------------------------
(* Python dictionaries *)

Empty == [k \in {} |-> 0]
NoneValue == [None |-> TRUE]
IsNone(d) == "None" \in DOMAIN d

DictSet(d, k, v) == [x \in (DOMAIN d) \cup {k} |-> IF x = k THEN v ELSE d[x]]
HasKey(d, k) == k \in DOMAIN d

PodSides == {"left", "right"}

----------------------------------------------------------------------------
(* The device, as the test fixtures describe its resources *)

mock_device_status ==
  [left     |-> [isOn |-> TRUE,  targetTemperatureF |-> 75],
   right    |-> [isOn |-> FALSE, targetTemperatureF |-> 77],
   settings |-> [ledBrightness |-> 0],
   freeSleep |-> [version |-> "2.1.3"]]

mock_settings ==
  [left          |-> [awayMode |-> FALSE],
   right         |-> [awayMode |-> FALSE],
   primePodDaily |-> [enabled |-> TRUE, time |-> "14:00"],
   rebootDaily   |-> TRUE]

mock_vitals == [heartRate |-> 60, respirationRate |-> 15]

mock_services == [biometrics |-> [enabled |-> TRUE]]

\* keys of a posted body whose value is a scalar and not an object
ScalarKeys == {"rebootDaily"}

\* the device merges a posted body into the resource it was posted to
DeviceMerge(resource, body) ==
  [k \in DOMAIN resource |->
     IF k \notin DOMAIN body THEN resource[k]
     ELSE IF k \in ScalarKeys THEN body[k]
     ELSE [j \in DOMAIN resource[k] |->
             IF j \in DOMAIN body[k] THEN body[k][j] ELSE resource[k][j]]]

----------------------------------------------------------------------------
(* api.py: the HTTP client *)

\* what the network hands back for one request
Response(net, status, body, payload) ==
  [net |-> net, status |-> status, body |-> body, payload |-> payload]

Result(ok, err, value, parsed) ==
  [ok |-> ok, err |-> err, value |-> value, parsed |-> parsed]

\* ClientResponse.raise_for_status raises for the statuses 400 and above
raise_for_status(response) == response.status >= 400

\* ClientResponse.json: the parsed body; a body of another content type
\* raises ContentTypeError and a malformed JSON body raises JSONDecodeError
response_json(response) ==
  IF response.body = "json"
  THEN Result(TRUE, "none", response.payload, TRUE)
  ELSE IF response.body = "text"
  THEN Result(FALSE, "ContentTypeError", Empty, TRUE)
  ELSE Result(FALSE, "JSONDecodeError", Empty, TRUE)

\* parse_response without its branch for 204
parse_response_no_204(response) == response_json(response)

parse_response(response) ==
  IF response.status = 204
  THEN Result(TRUE, "none", Empty, FALSE)
  ELSE response_json(response)

\* session.get / session.post with timeout=10, before the body is looked at
transport_error(response) ==
  IF response.net = "timeout" THEN "TimeoutError" ELSE "ClientConnectionError"

get(response) ==
  IF response.net # "response"
  THEN Result(FALSE, transport_error(response), Empty, FALSE)
  ELSE IF raise_for_status(response)
  THEN Result(FALSE, "ClientResponseError", Empty, FALSE)
  ELSE parse_response(response)

post(response) ==
  IF response.net # "response"
  THEN Result(FALSE, transport_error(response), Empty, FALSE)
  ELSE IF raise_for_status(response)
  THEN Result(FALSE, "ClientResponseError", Empty, FALSE)
  ELSE parse_response(response)

fetch_device_status(response) == get(response)
fetch_settings(response) == get(response)
fetch_vitals(response) == get(response)

\* wrappers that pod.py and coordinator.py call
fetch_services(response) == get(response)
update_device_status(response) == post(response)
update_settings(response) == post(response)

----------------------------------------------------------------------------
(* coordinator.py: FreeSleepCoordinator *)

Fetches == {"status", "settings", "vitals_left", "vitals_right", "services"}

Observers == {"climate", "switch"}

PodState(services, settings, status, vitals) ==
  [services |-> services, settings |-> settings, status |-> status,
   vitals |-> vitals]

\* exceptions that derive from aiohttp.ClientError
ClientErrors == {"ClientResponseError", "ClientConnectionError",
                 "ContentTypeError"}

Raised(exc, cause, d) == [raised |-> exc, cause |-> cause, data |-> d]
Returned(d) == [raised |-> "none", cause |-> "none", data |-> d]

ValueOrEmpty(res, f) == IF res[f].st = "done" THEN res[f].value ELSE Empty
ReadAt(res, f) == IF res[f].st = "done" THEN res[f].at ELSE 0

\* _async_update_data that gathers with return_exceptions and stores what
\* it got
_async_update_data_partial(res, exc) ==
  Returned(PodState(ValueOrEmpty(res, "services"),
                    ValueOrEmpty(res, "settings"),
                    ValueOrEmpty(res, "status"),
                    [left  |-> ValueOrEmpty(res, "vitals_left"),
                     right |-> ValueOrEmpty(res, "vitals_right")]))

\* the part of _async_update_data after gather: exc is the exception gather
\* raised ("none" when all five fetches returned), res the fetched values
_async_update_data(res, exc) ==
  IF exc = "TimeoutError" THEN Raised("UpdateFailed", exc, NoneValue)
  ELSE IF exc \in ClientErrors THEN Raised("UpdateFailed", exc, NoneValue)
  ELSE IF exc # "none" THEN Raised("UpdateFailed", exc, NoneValue)
  ELSE Returned(PodState(res["services"].value,
                         res["settings"].value,
                         res["status"].value,
                         [left  |-> res["vitals_left"].value,
                          right |-> res["vitals_right"].value]))

\* the call each of the five requests makes
fetch_call(f, response) ==
  CASE f = "status"   -> fetch_device_status(response)
    [] f = "settings" -> fetch_settings(response)
    [] f = "services" -> fetch_services(response)
    [] OTHER          -> fetch_vitals(response)

\* what the device would answer to the request with
FetchPayload(f) ==
  CASE f = "status"   -> dev.status
    [] f = "settings" -> dev.settings
    [] f = "services" -> mock_services
    [] OTHER          -> mock_vitals

\* answers of the device (or of the network) to a fetch; the resources that
\* are also posted to may answer 204
FetchResponses(f) ==
  { Response("response", 200, "json", FetchPayload(f)),
    Response("response", 404, "json", Empty),
    Response("response", 200, "malformed", Empty),
    Response("timeout", 0, "none", Empty) }
  \cup (IF f = "status"
        THEN {Response("response", 204, "none", Empty)} ELSE {})

\* the requests whose answers do not depend on what a write changes; their
\* answers arrive in the order the requests were sent
Before(f) ==
  CASE f = "vitals_right" -> {"vitals_left"}
    [] f = "services"     -> {"vitals_left", "vitals_right"}
    [] OTHER              -> {}

IdleFetches == [f \in Fetches |-> [st |-> "idle"]]

FirstRefresh == [raised |-> "none"]

NotifyAll(d) == [o \in Observers |-> d]

\* A reader (an entity, a caller of get_side_data) holds the object that
\* coordinator.data referred to when it read it.  stored: coordinator.data
\* still refers to that object; obtained: what the object held when the
\* reader got it; value: what it holds now.
MaxReads == 1

NoReader == [held |-> FALSE]

\* coordinator.data is bound to another object
ReaderAfterRebind(r) ==
  IF r.held THEN [r EXCEPT !.stored = FALSE] ELSE r

\* an item of the object coordinator.data refers to is assigned; d is what
\* the object holds afterwards
ReaderAfterPatch(r, d) ==
  IF r.held /\ r.stored THEN [r EXCEPT !.value = d] ELSE r

ReaderGet ==
  /\ budget.reads > 0
  /\ ~IsNone(data)
  /\ reader' = [held |-> TRUE, stored |-> TRUE, obtained |-> data,
                value |-> data]
  /\ budget' = [budget EXCEPT !.reads = @ - 1]
  /\ UNCHANGED <<dev, devEpoch, coordVars, wr, fwVars, apiCall, utilVars,
                 hostVars>>

\* a refresh starts: the scheduled one or a requested one
RefreshStart ==
  /\ rpc = "idle"
  /\ budget.refreshes > 0
  /\ rpc' = "gather"
  /\ fetchRes' = [f \in Fetches |-> [st |-> "pending"]]
  /\ gatherExc' = "none"
  /\ budget' = [budget EXCEPT !.refreshes = @ - 1]
  /\ UNCHANGED <<dev, devEpoch, data, last_update_success, lastRefresh, wr,
                 seen, notifyCount, prov, fwVars, apiCall, utilVars, auxVars,
                 hostVars>>

\* one of the five requests inside gather completes; gather raises the
\* first exception and the results of the other requests are never looked at
FetchDone(f, response) ==
  /\ rpc = "gather"
  /\ gatherExc = "none"
  /\ fetchRes[f].st = "pending"
  /\ \A g \in Before(f) : fetchRes[g].st = "done"
  /\ LET r == fetch_call(f, response) IN
       IF r.ok
       THEN /\ fetchRes' = [fetchRes EXCEPT
                 ![f] = [st |-> "done", value |-> r.value, at |-> devEpoch]]
            /\ UNCHANGED gatherExc
       ELSE /\ fetchRes' = [g \in Fetches |->
                              [st |-> IF g = f THEN "failed" ELSE "dropped"]]
            /\ gatherExc' = r.err
  /\ UNCHANGED <<dev, devEpoch, data, last_update_success, rpc, lastRefresh,
                 wr, seen, notifyCount, prov, budget, fwVars, apiCall,
                 utilVars, auxVars, hostVars>>

\* RefreshResume that keeps a snapshot a write-through action has patched
RefreshResumeKeepsPatch ==
  /\ rpc = "gather"
  /\ gatherExc # "none" \/ \A f \in Fetches : fetchRes[f].st = "done"
  /\ LET out == _async_update_data(fetchRes, gatherExc) IN
       /\ lastRefresh' = [raised |-> out.raised]
       /\ data' = IF out.raised = "none" /\ prov.lastStore # "patch"
                  THEN out.data ELSE data
       /\ last_update_success' = (out.raised = "none")
       /\ seen' = NotifyAll(data')
       /\ notifyCount' = notifyCount + 1
       /\ prov' = IF out.raised = "none"
                  THEN [prov EXCEPT !.lastStore = "refresh"]
                  ELSE prov
  /\ rpc' = "idle"
  /\ fetchRes' = IdleFetches
  /\ gatherExc' = "none"
  /\ reader' = IF lastRefresh'.raised = "none"
               THEN ReaderAfterRebind(reader) ELSE reader
  /\ UNCHANGED <<dev, devEpoch, wr, budget, fwVars, apiCall, utilVars,
                 hostVars>>

\* gather has returned or raised: _async_update_data finishes and
\* DataUpdateCoordinator stores the result and calls the listeners
RefreshResume ==
  /\ rpc = "gather"
  /\ gatherExc # "none" \/ \A f \in Fetches : fetchRes[f].st = "done"
  /\ LET out == _async_update_data(fetchRes, gatherExc) IN
       /\ lastRefresh' = [raised |-> out.raised]
       /\ IF out.raised = "none"
          THEN /\ data' = out.data
               /\ last_update_success' = TRUE
               /\ seen' = NotifyAll(out.data)
               /\ notifyCount' = notifyCount + 1
               /\ prov' = [prov EXCEPT
                    !.lastStore = "refresh",
                    !.readEpoch = [status   |-> ReadAt(fetchRes, "status"),
                                   settings |-> ReadAt(fetchRes, "settings")]]
          ELSE /\ data' = data
               /\ last_update_success' = FALSE
               /\ IF last_update_success
                  THEN /\ seen' = NotifyAll(data)
                       /\ notifyCount' = notifyCount + 1
                  ELSE UNCHANGED <<seen, notifyCount>>
               /\ UNCHANGED prov
  /\ rpc' = "idle"
  /\ fetchRes' = IdleFetches
  /\ gatherExc' = "none"
  /\ reader' = IF lastRefresh'.raised = "none"
               THEN ReaderAfterRebind(reader) ELSE reader
  /\ UNCHANGED <<dev, devEpoch, wr, budget, fwVars, apiCall, utilVars,
                 hostVars>>

----------------------------------------------------------------------------
(* pod.py: the write-through helpers of Pod and Side *)

DEVICE_STATUS_ENDPOINT == "/api/deviceStatus"
SETTINGS_ENDPOINT == "/api/settings"

\* data[a][b][c] = v, with the errors Python raises for a missing key
SetItem3(d, a, b, c, v) ==
  IF IsNone(d) THEN Raised("TypeError", "none", d)
  ELSE IF ~HasKey(d, a) THEN Raised("KeyError", "none", d)
  ELSE IF ~HasKey(d[a], b) THEN Raised("KeyError", "none", d)
  ELSE Returned(DictSet(d, a, DictSet(d[a], b, DictSet(d[a][b], c, v))))

\* data[a][b] = v
SetItem2(d, a, b, v) ==
  IF IsNone(d) THEN Raised("TypeError", "none", d)
  ELSE IF ~HasKey(d, a) THEN Raised("KeyError", "none", d)
  ELSE Returned(DictSet(d, a, DictSet(d[a], b, v)))

Nested(k, j, v) == k :> (j :> v)

set_prime_daily_json(enabled) == Nested("primePodDaily", "enabled", enabled)
set_prime_daily(enabled, response, d) ==
  LET r == update_settings(response) IN
  IF ~r.ok THEN Raised(r.err, "none", d)
  ELSE SetItem3(d, "settings", "primePodDaily", "enabled", enabled)

set_prime_daily_time_json(time) == Nested("primePodDaily", "time", time)
set_prime_daily_time(time, response, d) ==
  LET r == update_settings(response) IN
  IF ~r.ok THEN Raised(r.err, "none", d)
  ELSE SetItem3(d, "settings", "primePodDaily", "time", time)

set_reboot_daily_json(enabled) == "rebootDaily" :> enabled

\* set_reboot_daily that patches the cache before the transport call answers
set_reboot_daily_patch_first(enabled, response, d) ==
  LET r == update_settings(response)
      patched == SetItem2(d, "settings", "rebootDaily", enabled) IN
  IF ~r.ok THEN Raised(r.err, "none", patched.data)
  ELSE patched

set_reboot_daily(enabled, response, d) ==
  LET r == update_settings(response) IN
  IF ~r.ok THEN Raised(r.err, "none", d)
  ELSE SetItem2(d, "settings", "rebootDaily", enabled)

set_led_brightness_json(brightness) ==
  Nested("settings", "ledBrightness", brightness)
set_led_brightness(brightness, response, d) ==
  LET r == update_device_status(response) IN
  IF ~r.ok THEN Raised(r.err, "none", d)
  ELSE SetItem3(d, "status", "settings", "ledBrightness", brightness)

get_side_data(type, d) ==
  [status |-> d.status[type], settings |-> d.settings[type],
   vitals |-> d.vitals[type]]

set_active_json(type, active) == Nested(type, "isOn", active)

\* set_active that patches the settings part, as set_target_temperature does
set_active_into_settings(type, active, response, d) ==
  LET r == update_device_status(response) IN
  IF ~r.ok THEN Raised(r.err, "none", d)
  ELSE SetItem3(d, "settings", type, "isOn", active)

set_active(type, active, response, d) ==
  LET r == update_device_status(response) IN
  IF ~r.ok THEN Raised(r.err, "none", d)
  ELSE SetItem3(d, "status", type, "isOn", active)

set_target_temperature_json(type, temperature_f) ==
  Nested(type, "targetTemperatureF", temperature_f)
set_target_temperature(type, temperature_f, response, d) ==
  LET r == update_device_status(response) IN
  IF ~r.ok THEN Raised(r.err, "none", d)
  ELSE SetItem3(d, "settings", type, "targetTemperatureF", temperature_f)

set_away_mode_json(type, enabled) == Nested(type, "awayMode", enabled)
set_away_mode(type, enabled, response, d) ==
  LET r == update_settings(response) IN
  IF ~r.ok THEN Raised(r.err, "none", d)
  ELSE SetItem3(d, "settings", type, "awayMode", enabled)

\* the write-through actions, the sides and the values they are called with
SideKinds == {"set_active", "set_target_temperature", "set_away_mode"}
PodKinds == {"set_prime_daily", "set_prime_daily_time", "set_reboot_daily",
             "set_led_brightness"}
Kinds == SideKinds \cup PodKinds

TargetsOf(kind) == IF kind \in SideKinds THEN PodSides ELSE {"pod"}

ValuesOf(kind) ==
  CASE kind = "set_target_temperature" -> {70}
    [] kind = "set_prime_daily_time"   -> {"06:30"}
    [] kind = "set_led_brightness"     -> {50}
    [] kind = "set_active"             -> BOOLEAN
    [] kind = "set_away_mode"          -> {TRUE}
    [] OTHER                           -> {FALSE}

\* the resource of the device the action posts to
ResourceOf(kind) ==
  IF kind \in {"set_active", "set_target_temperature", "set_led_brightness"}
  THEN "status" ELSE "settings"

EndpointOf(kind) ==
  IF ResourceOf(kind) = "status" THEN DEVICE_STATUS_ENDPOINT
  ELSE SETTINGS_ENDPOINT

JsonOf(kind, side, value) ==
  CASE kind = "set_active"             -> set_active_json(side, value)
    [] kind = "set_target_temperature" ->
         set_target_temperature_json(side, value)
    [] kind = "set_away_mode"          -> set_away_mode_json(side, value)
    [] kind = "set_prime_daily"        -> set_prime_daily_json(value)
    [] kind = "set_prime_daily_time"   -> set_prime_daily_time_json(value)
    [] kind = "set_reboot_daily"       -> set_reboot_daily_json(value)
    [] OTHER                           -> set_led_brightness_json(value)

\* the part of the action that runs once the transport call has answered
Finish(kind, side, value, response, d) ==
  CASE kind = "set_active"             -> set_active(side, value, response, d)
    [] kind = "set_target_temperature" ->
         set_target_temperature(side, value, response, d)
    [] kind = "set_away_mode"          ->
         set_away_mode(side, value, response, d)
    [] kind = "set_prime_daily"        -> set_prime_daily(value, response, d)
    [] kind = "set_prime_daily_time"   ->
         set_prime_daily_time(value, response, d)
    [] kind = "set_reboot_daily"       -> set_reboot_daily(value, response, d)
    [] OTHER                           ->
         set_led_brightness(value, response, d)

\* answers of the device (or of the network) to a write
WriteResponses ==
  { Response("response", 204, "none", Empty),
    Response("response", 404, "json", Empty),
    Response("timeout", 0, "none", Empty) }

\* the device applies the body it accepts (a 2xx answer); the answer to an
\* applied body may be lost, which the client sees as a timeout
Applies(response) ==
  response.net = "timeout" \/ response.status \in 200..299

NeverWritten == [raised |-> "never"]

\* an entity calls a write-through action: the body is built and posted.
\* Entities exist once the first refresh of the setup has succeeded.
WriteStart(kind, side, value) ==
  /\ wr.pc = "idle"
  /\ ~IsNone(data)
  /\ budget.writes > 0
  /\ wr' = [pc |-> "posting", kind |-> kind, side |-> side, value |-> value,
            calls |-> <<[method |-> "POST", url |-> EndpointOf(kind),
                         json |-> JsonOf(kind, side, value)]>>]
  /\ budget' = [budget EXCEPT !.writes = @ - 1]
  /\ UNCHANGED <<dev, devEpoch, coordVars, fwVars, apiCall, utilVars, auxVars,
                 hostVars>>

\* the request reaches the device, which applies it or rejects it
DeviceHandle(response) ==
  /\ wr.pc = "posting"
  /\ LET res == ResourceOf(wr.kind)
         applied == Applies(response)
         body == wr.calls[1].json IN
       /\ dev' = IF applied
                 THEN [dev EXCEPT ![res] = DeviceMerge(@, body)]
                 ELSE dev
       /\ devEpoch' = IF applied THEN devEpoch + 1 ELSE devEpoch
       /\ wr' = [pc |-> "responded", kind |-> wr.kind, side |-> wr.side,
                 value |-> wr.value, calls |-> wr.calls,
                 response |-> response, epoch |-> devEpoch']
  /\ UNCHANGED <<coordVars, budget, fwVars, apiCall, utilVars, auxVars,
                 hostVars>>

\* WriteReturn that stores the patched data without async_set_updated_data
WriteReturnSilent ==
  /\ wr.pc = "responded"
  /\ LET out == Finish(wr.kind, wr.side, wr.value, wr.response, data) IN
       /\ wr' = [pc |-> "idle", last |-> [raised |-> out.raised]]
       /\ data' = out.data
       /\ prov' = IF out.raised = "none"
                  THEN [prov EXCEPT
                          !.lastStore = "patch",
                          !.patch = [resource |-> ResourceOf(wr.kind),
                                     epoch |-> wr.epoch]]
                  ELSE prov
  /\ UNCHANGED <<dev, devEpoch, rpc, fetchRes, gatherExc, lastRefresh, budget,
                 last_update_success, seen, notifyCount, fwVars, apiCall,
                 utilVars, hostVars>>
  /\ reader' = ReaderAfterPatch(reader, data')

\* the transport call returns or raises and the action runs to its end:
\* the patch of coordinator.data and async_set_updated_data
WriteReturn ==
  /\ wr.pc = "responded"
  /\ LET out == Finish(wr.kind, wr.side, wr.value, wr.response, data) IN
       /\ wr' = [pc |-> "idle", last |-> [raised |-> out.raised]]
       /\ data' = out.data
       /\ IF out.raised = "none"
          THEN /\ last_update_success' = TRUE
               /\ seen' = NotifyAll(out.data)
               /\ notifyCount' = notifyCount + 1
               /\ prov' = [prov EXCEPT
                    !.lastStore = "patch",
                    !.patch = [resource |-> ResourceOf(wr.kind),
                               epoch |-> wr.epoch]]
          ELSE UNCHANGED <<last_update_success, seen, notifyCount, prov>>
  /\ UNCHANGED <<dev, devEpoch, rpc, fetchRes, gatherExc, lastRefresh, budget,
                 fwVars, apiCall, utilVars, hostVars>>
  /\ reader' = ReaderAfterPatch(reader, data')

----------------------------------------------------------------------------
(* climate.py: what the climate entity of a side reads *)

get_target_temperature(side_data) == side_data.status.targetTemperatureF

target_temperature(type, d) ==
  get_target_temperature(get_side_data(type, d))

----------------------------------------------------------------------------
(* coordinator.py: FirmwareUpdateCoordinator *)

FwFetches == {"current_version", "latest_version"}

LatestVersions == {"2.2.0", "2.3.0"}

FirmwareState(current_version, latest_version) ==
  [current_version |-> current_version, latest_version |-> latest_version]

\* the version wrappers of the client: the version field of the body
fetch_current_version(response) ==
  LET r == get(response) IN
  IF ~r.ok THEN r
  ELSE IF HasKey(r.value, "freeSleep")
  THEN [r EXCEPT !.value = r.value.freeSleep.version]
  ELSE [r EXCEPT !.value = "unknown"]

fetch_latest_version(response) ==
  LET r == get(response) IN
  IF ~r.ok THEN r
  ELSE IF HasKey(r.value, "version")
  THEN [r EXCEPT !.value = r.value.version]
  ELSE [r EXCEPT !.value = "unknown"]

fw_fetch_call(f, response) ==
  IF f = "current_version" THEN fetch_current_version(response)
  ELSE fetch_latest_version(response)

FwResponses(f) ==
  (IF f = "current_version"
   THEN {Response("response", 200, "json", dev.status)}
   ELSE {Response("response", 200, "json", [version |-> v]) :
           v \in LatestVersions})
  \cup { Response("response", 404, "json", Empty),
         Response("timeout", 0, "none", Empty) }

\* firmware _async_update_data that gathers with return_exceptions and
\* returns the versions it got
firmware_update_data_partial(res, exc) ==
  Returned(FirmwareState(
    IF res["current_version"].st = "done"
    THEN res["current_version"].value ELSE "unknown",
    IF res["latest_version"].st = "done"
    THEN res["latest_version"].value ELSE "unknown"))

\* the firmware _async_update_data after gather
firmware_update_data(res, exc) ==
  IF exc # "none" THEN Raised("UpdateFailed", exc, NoneValue)
  ELSE Returned(FirmwareState(res["current_version"].value,
                              res["latest_version"].value))

IdleFwFetches == [f \in FwFetches |-> [st |-> "idle"]]

FwStart ==
  /\ fwpc = "idle"
  /\ budget.firmware > 0
  /\ fwpc' = "gather"
  /\ fwRes' = [f \in FwFetches |-> [st |-> "pending"]]
  /\ budget' = [budget EXCEPT !.firmware = @ - 1]
  /\ UNCHANGED <<dev, devEpoch, coordVars, wr, fwData, fwLast, apiCall,
                 utilVars, auxVars, hostVars>>

FwFailed == \E f \in FwFetches : fwRes[f].st = "failed"

FwFetchDone(f, response) ==
  /\ fwpc = "gather"
  /\ fwRes[f].st = "pending"
  /\ LET r == fw_fetch_call(f, response) IN
       fwRes' = [fwRes EXCEPT ![f] =
                   IF r.ok THEN [st |-> "done", value |-> r.value]
                   ELSE [st |-> "failed", err |-> r.err]]
  /\ UNCHANGED <<dev, devEpoch, coordVars, wr, budget, fwpc, fwData, fwLast,
                 apiCall, utilVars, auxVars, hostVars>>

FwFirstError ==
  IF fwRes["current_version"].st = "failed"
  THEN fwRes["current_version"].err
  ELSE IF fwRes["latest_version"].st = "failed"
  THEN fwRes["latest_version"].err
  ELSE "none"

\* FwResume of a firmware coordinator that shares last_update_success with
\* the device-state coordinator
FwResumeShared ==
  /\ fwpc = "gather"
  /\ FwFailed \/ \A f \in FwFetches : fwRes[f].st = "done"
  /\ LET out == firmware_update_data(fwRes, FwFirstError) IN
       /\ fwLast' = [raised |-> out.raised, cause |-> out.cause]
       /\ fwData' = IF out.raised = "none" THEN out.data ELSE fwData
       /\ last_update_success' = (out.raised = "none")
  /\ fwpc' = "idle"
  /\ fwRes' = IdleFwFetches
  /\ UNCHANGED <<dev, devEpoch, data, rpc, fetchRes, gatherExc, lastRefresh,
                 seen, notifyCount, prov, wr, budget, apiCall, utilVars,
                 auxVars, hostVars>>

FwResume ==
  /\ fwpc = "gather"
  /\ FwFailed \/ \A f \in FwFetches : fwRes[f].st = "done"
  /\ LET out == firmware_update_data(fwRes, FwFirstError) IN
       /\ fwLast' = [raised |-> out.raised, cause |-> out.cause]
       /\ fwData' = IF out.raised = "none" THEN out.data ELSE fwData
  /\ fwpc' = "idle"
  /\ fwRes' = IdleFwFetches
  /\ UNCHANGED <<dev, devEpoch, coordVars, wr, budget, apiCall, utilVars,
                 auxVars, hostVars>>

----------------------------------------------------------------------------
(* Direct calls of the client, with every kind of answer *)

Responses ==
  { Response("response", st, b, p) :
      st \in {200, 201, 204, 300, 304, 400, 404, 500},
      b \in {"json", "text", "malformed"},
      p \in {mock_vitals, mock_services, Empty} }
  \cup { Response("timeout", 0, "none", Empty),
         Response("client_error", 0, "none", Empty) }

NoCall == [method |-> "none"]

ApiGet(response) ==
  /\ apiCall' = [method |-> "GET", response |-> response,
                 result |-> get(response)]
  /\ UNCHANGED <<dev, devEpoch, coordVars, wr, budget, fwVars, utilVars,
                 auxVars, hostVars>>

ApiPost(response) ==
  /\ apiCall' = [method |-> "POST", response |-> response,
                 result |-> post(response)]
  /\ UNCHANGED <<dev, devEpoch, coordVars, wr, budget, fwVars, utilVars,
                 auxVars, hostVars>>

----------------------------------------------------------------------------
(* config_flow.py: validation of the host address given at setup.  A host *)
(* address is the scheme and the network location a URL parser finds.     *)

Host(scheme, netloc) == [scheme |-> scheme, netloc |-> netloc]

\* the addresses of test_validate_setup and test_validate_setup_invalid_url:
\* a http and a https URL, 'ftp://example.com', 'www.example.com' and
\* 'invalid_url'
Hosts ==
  {Host("http", "127.0.0.1:8080"), Host("https", "pod.local"),
   Host("ftp", "example.com"), Host("", "www.example.com"),
   Host("", "invalid_url"), Host("http", "")}

is_url(host) == host.scheme \in {"http", "https"} /\ host.netloc # ""

\* the answers of the device in the tests of validate_setup, and a device
\* that does not answer
SetupResponses ==
  {Response("response", 200, "json", [hubVersion |-> "1.2.3"]),
   Response("response", 200, "json", [hubVersion |-> "Pod 4"]),
   Response("response", 500, "json", Empty),
   Response("response", 404, "json", Empty),
   Response("timeout", 0, "none", Empty),
   Response("client_error", 0, "none", Empty)}

SetupResult(raised, requests, name, config) ==
  [raised |-> raised, requests |-> requests, name |-> name,
   config |-> config]

validate_connection(host, response) ==
  LET r == fetch_device_status(response) IN
  IF ~r.ok
  THEN SetupResult("cannot_connect", 1, "", Empty)
  ELSE SetupResult("none", 1, r.value["hubVersion"], Empty)

\* validate_setup that contacts the device before it looks at the address
validate_setup_connect_first(user_input, response) ==
  LET c == validate_connection(user_input["host"], response) IN
  IF c.raised # "none" THEN c
  ELSE IF ~is_url(user_input["host"])
  THEN SetupResult("invalid_url", 1, "", Empty)
  ELSE SetupResult("none", 1, c.name, user_input)

validate_setup(user_input, response) ==
  IF ~is_url(user_input["host"])
  THEN SetupResult("invalid_url", 0, "", Empty)
  ELSE LET c == validate_connection(user_input["host"], response) IN
       IF c.raised # "none" THEN c
       ELSE SetupResult("none", c.requests, c.name, user_input)

ValidateSetup(host, response) ==
  /\ setupCall' = [method |-> "validate_setup",
                   user_input |-> [host |-> host],
                   response |-> response,
                   result |-> validate_setup([host |-> host], response)]
  /\ UNCHANGED <<dev, devEpoch, coordVars, wr, budget, fwVars, apiCall,
                 conv, scheduleObject, scheduleCalls, auxVars, hostVars>>

----------------------------------------------------------------------------
(* utils.py.  A temperature is a whole number of hundredths of a degree. *)

MaxConversions == 2

Hundredths == 100
Units == {"FAHRENHEIT", "CELSIUS", "KELVIN"}

\* Python round(num / den) for den > 0: the nearest integer, and of two
\* equally near integers the even one
round(num, den) ==
  LET q == num \div den
      r == num % den
  IN IF 2 * r < den THEN q
     ELSE IF 2 * r > den THEN q + 1
     ELSE IF q % 2 = 0 THEN q ELSE q + 1

\* unit_to_fahrenheit with int() in the place of round()
unit_to_fahrenheit_truncating(unit, value) ==
  IF unit = "FAHRENHEIT"
  THEN Hundredths * (value \div Hundredths)
  ELSE LET celsius_value == IF unit = "KELVIN" THEN value - 27315 ELSE value
       IN Hundredths * ((celsius_value * 18 + 32 * 1000) \div 1000)

\* (celsius_value * 1.8) + 32 is (celsius_value * 18 + 32000) / 1000 when
\* celsius_value counts hundredths; the result counts hundredths as well
unit_to_fahrenheit(unit, value) ==
  IF unit = "FAHRENHEIT"
  THEN Hundredths * round(value, Hundredths)
  ELSE LET celsius_value == IF unit = "KELVIN" THEN value - 27315 ELSE value
       IN Hundredths * round(celsius_value * 18 + 32 * 1000, 1000)

\* schedule.get(key)
DictGet(d, k) == IF HasKey(d, k) THEN d[k] ELSE NoneValue
\* the truth value of a dict or None
Truthy(d) == ~IsNone(d) /\ DOMAIN d # {}

\* The objects of one call: converted_schedule is a new dict whose values
\* are the very objects the values of schedule are, so an item set through
\* converted_schedule['alarm'] or converted_schedule['power'] is set in the
\* caller's schedule too, while converted_schedule['temperatures'] is bound
\* to a new dict.  shared is the content of the caller's schedule, and
\* of the shallow copy, after the two item assignments.
ConvertShared(unit, schedule, convertAlarm, convertPower) ==
  LET alarm == DictGet(schedule, "alarm")
      power == DictGet(schedule, "power")
      afterAlarm ==
        IF convertAlarm /\ Truthy(alarm) /\ HasKey(alarm, "alarmTemperature")
        THEN DictSet(schedule, "alarm",
               DictSet(alarm, "alarmTemperature",
                 unit_to_fahrenheit(unit, alarm["alarmTemperature"])))
        ELSE schedule
  IN IF convertPower /\ Truthy(power) /\ HasKey(power, "onTemperature")
     THEN DictSet(afterAlarm, "power",
            DictSet(power, "onTemperature",
              unit_to_fahrenheit(unit, power["onTemperature"])))
     ELSE afterAlarm

ConvertTemperatures(unit, schedule, shared) ==
  LET temperatures == DictGet(schedule, "temperatures")
  IN IF Truthy(temperatures)
     THEN DictSet(shared, "temperatures",
            [time \in DOMAIN temperatures |->
               unit_to_fahrenheit(unit, temperatures[time])])
     ELSE shared

\* schedule_to_fahrenheit without its return for FAHRENHEIT
schedule_to_fahrenheit_no_return(unit, schedule) ==
  LET shared == ConvertShared(unit, schedule, TRUE, TRUE)
  IN [returned |-> ConvertTemperatures(unit, schedule, shared),
      schedule |-> shared]

\* schedule_to_fahrenheit without its conversion of power.onTemperature
schedule_to_fahrenheit_no_power(unit, schedule) ==
  IF unit = "FAHRENHEIT"
  THEN [returned |-> schedule, schedule |-> schedule]
  ELSE LET shared == ConvertShared(unit, schedule, TRUE, FALSE)
       IN [returned |-> ConvertTemperatures(unit, schedule, shared),
           schedule |-> shared]

\* returned: the dict the call returns; schedule: the content of the dict
\* passed to the call once the call has returned
schedule_to_fahrenheit(unit, schedule) ==
  IF unit = "FAHRENHEIT"
  THEN [returned |-> schedule, schedule |-> schedule]
  ELSE LET shared == ConvertShared(unit, schedule, TRUE, TRUE)
       IN [returned |-> ConvertTemperatures(unit, schedule, shared),
           schedule |-> shared]

\* inputs of unit_to_fahrenheit: the values of test_unit_to_fahrenheit,
\* values whose conversion lies halfway between two integers (2.5 C,
\* 22.5 C, 275.65 K, 295.65 K) and the half-degree steps of the climate
\* entity
ValuesOfUnit(unit) ==
  IF unit = "CELSIUS"
  THEN {-4000, 0, 250, 1800, 2000, 2050, 2250, 10000}
  ELSE IF unit = "KELVIN"
  THEN {0, 25537, 27565, 29315, 29415, 29565, 37315}
  ELSE {-4000, 3200, 7000, 7050, 7150, 21200}

\* schedules: every subset of alarm, power and temperatures present, each
\* empty or filled, with and without keys the conversion does not know
Alarms ==
  {Empty, [time |-> "07:00"],
   [time |-> "07:00", alarmTemperature |-> 2000],
   [time |-> "07:00", alarmTemperature |-> 2250]}
Powers ==
  {Empty, [on |-> "22:00", onTemperature |-> 2200],
   [on |-> "22:00", onTemperature |-> 7050]}
Temperatures ==
  {Empty, ("08:00" :> 1800), ("08:00" :> 1800) @@ ("20:00" :> 2250)}
Extras == {Empty, [elevations |-> Empty]}

Optional(k, values) == {Empty} \cup {k :> v : v \in values}

Schedules ==
  { a @@ p @@ t @@ e :
      a \in Optional("alarm", Alarms), p \in Optional("power", Powers),
      t \in Optional("temperatures", Temperatures), e \in Extras }

UnitToFahrenheit(unit, value) ==
  /\ conv' = [method |-> "unit_to_fahrenheit", unit |-> unit,
              value |-> value, result |-> unit_to_fahrenheit(unit, value)]
  /\ UNCHANGED <<dev, devEpoch, coordVars, wr, budget, fwVars, apiCall,
                 scheduleObject, scheduleCalls, setupCall, auxVars, hostVars>>

ScheduleToFahrenheit(unit) ==
  /\ Len(scheduleCalls) < MaxConversions
  /\ LET out == schedule_to_fahrenheit(unit, scheduleObject) IN
       /\ scheduleCalls' =
            Append(scheduleCalls,
                   [unit |-> unit, schedule |-> scheduleObject,
                    returned |-> out.returned])
       /\ scheduleObject' = out.schedule
  /\ UNCHANGED <<dev, devEpoch, coordVars, wr, budget, fwVars, apiCall,
                 conv, setupCall, auxVars, hostVars>>

----------------------------------------------------------------------------
(* Specifications *)

\* the snapshot the first refresh of async_setup_entry stored
FirstSnapshot ==
  PodState(mock_services, mock_settings, mock_device_status,
           [left |-> mock_vitals, right |-> mock_vitals])

FirstProvenance ==
  [lastStore |-> "refresh",
   readEpoch |-> [status |-> 0, settings |-> 0],
   patch |-> [resource |-> "none", epoch |-> 0]]

----------------------------------------------------------------------------
(* time.py: the time entity *)

Digits == <<"0", "1", "2", "3", "4", "5", "6", "7", "8", "9">>

IsDigit(ch) == \E n \in 1..10 : Digits[n] = ch
DigitValue(ch) == (CHOOSE n \in 1..10 : Digits[n] = ch) - 1

\* a number below 100 as strftime writes it for %H and %M
TwoDigits(n) == Digits[(n \div 10) + 1] \o Digits[(n % 10) + 1]

\* value.strftime that does not pad the hour
strftime_unpadded(value) ==
  (IF value.hour < 10 THEN Digits[value.hour + 1]
   ELSE TwoDigits(value.hour)) \o ":" \o TwoDigits(value.minute)

\* value.strftime('%H:%M')
strftime(value) == TwoDigits(value.hour) \o ":" \o TwoDigits(value.minute)

\* s.split(sep) for a separator of one character
RECURSIVE split(_, _)
split(s, sep) ==
  IF \A i \in 1..Len(s) : SubSeq(s, i, i) # sep
  THEN <<s>>
  ELSE LET i == CHOOSE j \in 1..Len(s) :
                  /\ SubSeq(s, j, j) = sep
                  /\ \A k \in 1..(j - 1) : SubSeq(s, k, k) # sep
       IN <<SubSeq(s, 1, i - 1)>> \o split(SubSeq(s, i + 1, Len(s)), sep)

\* the strings int() accepts here: one decimal digit or more
IsInt(s) == Len(s) > 0 /\ \A i \in 1..Len(s) : IsDigit(SubSeq(s, i, i))

RECURSIVE int(_)
int(s) ==
  IF Len(s) = 1 THEN DigitValue(s)
  ELSE 10 * int(SubSeq(s, 1, Len(s) - 1))
       + DigitValue(SubSeq(s, Len(s), Len(s)))

\* datetime.time(hour=hour, minute=minute)
time(hour, minute) ==
  IF hour \in 0..23 /\ minute \in 0..59
  THEN Returned([hour |-> hour, minute |-> minute, second |-> 0])
  ELSE Raised("ValueError", "none", NoneValue)

\* FreeSleepTime.native_value of the prime daily time entity
native_value(d) ==
  LET value == d.settings.primePodDaily.time
      parts == split(value, ":") IN
    IF Len(parts) # 2 \/ \E i \in 1..Len(parts) : ~IsInt(parts[i])
    THEN Raised("ValueError", "none", NoneValue)
    ELSE time(int(parts[1]), int(parts[2]))

\* the times of day an action is called with
Times == [hour : 0..23, minute : 0..59, second : {0, 59}]

----------------------------------------------------------------------------
(* climate.py, time.py, switch.py: the actions of the entities *)

\* the tasks that call actions of entities, each of them once
Callers == {"a", "b"}

IdleCaller == [pc |-> "idle", requests |-> 0]

ClimateActions ==
  {"async_set_temperature", "async_set_hvac_mode", "async_turn_on",
   "async_turn_off"}

\* the actions that end with coordinator.async_request_refresh()
EntityActions == ClimateActions \cup {"async_set_value"}

\* the arguments of a climate action: the keyword arguments of
\* async_set_temperature, the mode of async_set_hvac_mode
ArgsOf(action) ==
  CASE action = "async_set_temperature" -> {Empty, "temperature" :> 70}
    [] action = "async_set_hvac_mode"   -> {"heat_cool", "off"}
    [] OTHER                            -> {"none"}

\* FreeSleepSideClimate.hvac_mode
hvac_mode(type, d) ==
  IF get_side_data(type, d).status.isOn THEN "heat_cool" ELSE "off"

\* the climate actions, if each of them switched the side on
ClimateWriteAlwaysOn(action, arg) ==
  IF action = "async_set_temperature"
  THEN [kind |-> "set_target_temperature", value |-> arg.temperature]
  ELSE [kind |-> "set_active", value |-> TRUE]

\* the helper a climate action awaits and the value it passes
ClimateWrite(action, arg) ==
  CASE action = "async_set_temperature" ->
         [kind |-> "set_target_temperature", value |-> arg.temperature]
    [] action = "async_set_hvac_mode"   ->
         [kind |-> "set_active", value |-> (arg # "off")]
    [] action = "async_turn_on"         ->
         [kind |-> "set_active", value |-> TRUE]
    [] OTHER                            ->
         [kind |-> "set_active", value |-> FALSE]

\* an action awaits a write-through helper, which builds the body and
\* posts it
CallerPosts(c, action, arg, kind, side, value) ==
  /\ callers[c].pc = "idle"
  /\ ~IsNone(data)
  /\ callers' = [callers EXCEPT ![c] =
       [pc |-> "posting", action |-> action, arg |-> arg, kind |-> kind,
        side |-> side, value |-> value,
        calls |-> <<[method |-> "POST", url |-> EndpointOf(kind),
                     json |-> JsonOf(kind, side, value)]>>,
        requests |-> 0]]
  /\ UNCHANGED <<dev, devEpoch, coordVars, wr, budget, fwVars, apiCall,
                 utilVars, auxVars, svc, hassData, entry>>

\* a switch or a number entity calls its helper
HelperCall(c, kind, side, value) ==
  CallerPosts(c, kind, "none", kind, side, value)

\* one of the four actions of the climate entity of a side is called
ClimateCall(c, action, side, arg) ==
  IF action = "async_set_temperature" /\ ~HasKey(arg, "temperature")
  THEN /\ callers[c].pc = "idle"
       /\ ~IsNone(data)
       /\ callers' = [callers EXCEPT ![c] =
            [pc |-> "done", action |-> action, arg |-> arg, kind |-> "none",
             side |-> side, calls |-> <<>>, raised |-> "none",
             requests |-> 1]]
       /\ UNCHANGED <<dev, devEpoch, coordVars, wr, budget, fwVars, apiCall,
                      utilVars, auxVars, svc, hassData, entry>>
  ELSE LET w == ClimateWrite(action, arg)
       IN CallerPosts(c, action, arg, w.kind, side, w.value)

\* FreeSleepTime.async_set_value of the prime daily time entity is called
TimeCall(c, value) ==
  CallerPosts(c, "async_set_value", value, "set_prime_daily_time", "pod",
              strftime(value))

\* the request of an action reaches the device, which applies it or
\* rejects it
CallerDevice(c, response) ==
  /\ callers[c].pc = "posting"
  /\ LET r == callers[c]
         res == ResourceOf(r.kind)
         applied == Applies(response) IN
       /\ dev' = IF applied
                 THEN [dev EXCEPT ![res] = DeviceMerge(@, r.calls[1].json)]
                 ELSE dev
       /\ devEpoch' = IF applied THEN devEpoch + 1 ELSE devEpoch
       /\ callers' = [callers EXCEPT ![c] =
            [pc |-> "responded", action |-> r.action, arg |-> r.arg,
             kind |-> r.kind, side |-> r.side, value |-> r.value,
             calls |-> r.calls, requests |-> r.requests,
             response |-> response, epoch |-> devEpoch']]
  /\ UNCHANGED <<coordVars, wr, budget, fwVars, apiCall, utilVars, auxVars,
                 svc, hassData, entry>>

\* where an action is once its helper has returned or raised: an entity
\* action that was not left by an exception has requested a refresh
Ended(r, out, requests) ==
  [pc |-> IF out.raised = "none" THEN "done" ELSE "raised",
   action |-> r.action, arg |-> r.arg, kind |-> r.kind, side |-> r.side,
   value |-> r.value, calls |-> r.calls, response |-> r.response,
   epoch |-> r.epoch, raised |-> out.raised, requests |-> requests]

\* what the end of the helper does to the coordinator
Stored(r, out) ==
  /\ data' = out.data
  /\ IF out.raised = "none"
     THEN /\ last_update_success' = TRUE
          /\ seen' = NotifyAll(out.data)
          /\ notifyCount' = notifyCount + 1
          /\ prov' = [prov EXCEPT
               !.lastStore = "patch",
               !.patch = [resource |-> ResourceOf(r.kind),
                          epoch |-> r.epoch]]
     ELSE UNCHANGED <<last_update_success, seen, notifyCount, prov>>
  /\ reader' = ReaderAfterPatch(reader, data')
  /\ UNCHANGED <<dev, devEpoch, rpc, fetchRes, gatherExc, lastRefresh, wr,
                 budget, fwVars, apiCall, utilVars, svc, hassData, entry>>

\* CallerReturn with a helper that patches the snapshot of the first
\* refresh, not the one that is stored when its transport call returns
CallerReturnStale(c) ==
  /\ callers[c].pc = "responded"
  /\ LET r == callers[c]
         out == Finish(r.kind, r.side, r.value, r.response, FirstSnapshot)
         requests == IF out.raised = "none" /\ r.action \in EntityActions
                     THEN 1 ELSE 0 IN
       /\ callers' = [callers EXCEPT ![c] = Ended(r, out, requests)]
       /\ Stored(r, out)

\* CallerReturn of actions that request the refresh in a finally clause
CallerReturnRefreshesAlways(c) ==
  /\ callers[c].pc = "responded"
  /\ LET r == callers[c]
         out == Finish(r.kind, r.side, r.value, r.response, data)
         requests == IF r.action \in EntityActions THEN 1 ELSE 0 IN
       /\ callers' = [callers EXCEPT ![c] = Ended(r, out, requests)]
       /\ Stored(r, out)

\* the transport call of the helper returns or raises and the helper runs
\* to its end; an exception leaves the action that awaits the helper, and
\* otherwise an entity action goes on to coordinator.async_request_refresh()
\* without giving up control in between
CallerReturn(c) ==
  /\ callers[c].pc = "responded"
  /\ LET r == callers[c]
         out == Finish(r.kind, r.side, r.value, r.response, data)
         requests == IF out.raised = "none" /\ r.action \in EntityActions
                     THEN 1 ELSE 0 IN
       /\ callers' = [callers EXCEPT ![c] = Ended(r, out, requests)]
       /\ Stored(r, out)

----------------------------------------------------------------------------
(* __init__.py: the config entry and hass.data *)

ENTRY_ID == "entry_1"

\* the tuple async_setup_entry stores for an entry
Pair(id) == [pod |-> id, coordinator |-> id]

\* hass.data[DOMAIN].pop(entry_id)
DictPop(d, k) == [x \in (DOMAIN d) \ {k} |-> d[x]]

\* answers to the device status request of async_setup_entry
EntryStatusResponses ==
  SetupResponses \cup {Response("response", 204, "none", Empty)}

\* Home Assistant calls async_setup_entry for the entry, which requests
\* the device status
SetupEntry ==
  /\ entry.state = "not_loaded"
  /\ entry.pc = "idle"
  /\ lastRefresh.raised = "never"
  /\ entry' = [state |-> "setup_in_progress", pc |-> "fetch_device_status"]
  /\ UNCHANGED <<dev, devEpoch, coordVars, wr, budget, fwVars, apiCall,
                 utilVars, auxVars, callers, svc, hassData>>

\* the device status request answers: an exception, of the request or of
\* status['hubVersion'], leaves async_setup_entry; otherwise the pod and
\* the coordinator are made and stored in hass.data, and the first refresh
\* is awaited
SetupStatus(response) ==
  /\ entry.pc = "fetch_device_status"
  /\ LET r == fetch_device_status(response) IN
       IF r.ok /\ HasKey(r.value, "hubVersion")
       THEN /\ hassData' = DictSet(hassData, ENTRY_ID, Pair(ENTRY_ID))
            /\ entry' = [state |-> "setup_in_progress",
                         pc |-> "first_refresh"]
       ELSE /\ hassData' = hassData
            /\ entry' = [state |-> "setup_error", pc |-> "idle",
                         raised |-> IF r.ok THEN "KeyError" ELSE r.err]
  /\ UNCHANGED <<dev, devEpoch, coordVars, wr, budget, fwVars, apiCall,
                 utilVars, auxVars, callers, svc>>

\* the refreshes the coordinator may run: the first one, which
\* async_config_entry_first_refresh awaits, and those of a loaded entry
RefreshAllowed ==
  \/ /\ entry.pc = "first_refresh"
     /\ rpc = "idle" => lastRefresh.raised = "never"
  \/ entry.state = "loaded"

\* async_config_entry_first_refresh returns, or raises ConfigEntryNotReady
\* when the refresh has failed; after it the platforms are set up
SetupRefreshed ==
  /\ entry.pc = "first_refresh"
  /\ rpc = "idle"
  /\ lastRefresh.raised # "never"
  /\ entry' = IF lastRefresh.raised = "none"
              THEN [state |-> "setup_in_progress", pc |-> "forward"]
              ELSE [state |-> "setup_retry", pc |-> "idle",
                    raised |-> "ConfigEntryNotReady"]
  /\ UNCHANGED <<dev, devEpoch, coordVars, wr, budget, fwVars, apiCall,
                 utilVars, auxVars, callers, svc, hassData>>

\* async_forward_entry_setups returns and async_setup_entry returns True
SetupForwarded ==
  /\ entry.pc = "forward"
  /\ entry' = [state |-> "loaded", pc |-> "idle"]
  /\ UNCHANGED <<dev, devEpoch, coordVars, wr, budget, fwVars, apiCall,
                 utilVars, auxVars, callers, svc, hassData>>

\* Home Assistant calls async_unload_entry for the loaded entry
UnloadEntry ==
  /\ entry.state = "loaded"
  /\ entry.pc = "idle"
  /\ entry' = [state |-> "loaded", pc |-> "unload_platforms"]
  /\ UNCHANGED <<dev, devEpoch, coordVars, wr, budget, fwVars, apiCall,
                 utilVars, auxVars, callers, svc, hassData>>

\* async_unload_platforms returns unload_ok
UnloadPlatforms(unload_ok) ==
  /\ entry.pc = "unload_platforms"
  /\ hassData' = IF unload_ok THEN DictPop(hassData, ENTRY_ID) ELSE hassData
  /\ entry' = [state |-> IF unload_ok THEN "not_loaded" ELSE "failed_unload",
               pc |-> "idle"]
  /\ UNCHANGED <<dev, devEpoch, coordVars, wr, budget, fwVars, apiCall,
                 utilVars, auxVars, callers, svc>>

----------------------------------------------------------------------------
(* services.py: the set_schedule service *)

MaxSides == 2

MANUFACTURER == "Eight Sleep"
SCHEDULES_ENDPOINT == "/api/schedules"
DAYS_OF_WEEK ==
  <<"monday", "tuesday", "wednesday", "thursday", "friday", "saturday",
    "sunday">>

\* Side.device_info['identifiers'] of a side of the pod of an entry
SideIdentifiers(id, type) == {<<MANUFACTURER, id \o "_" \o type>>}

\* the device registry: the devices of the two sides of the pod and a
\* device of another integration, each with its identifiers
DeviceRegistry ==
  [device_left  |-> SideIdentifiers(ENTRY_ID, "left"),
   device_right |-> SideIdentifiers(ENTRY_ID, "right"),
   device_lamp  |-> {<<"Lamps", "lamp_1">>}]

\* registry.async_get(side_id)
registry_async_get(side_id) ==
  IF HasKey(DeviceRegistry, side_id)
  THEN [identifiers |-> DeviceRegistry[side_id]]
  ELSE NoneValue

\* the device ids a call names
SideIds == DOMAIN DeviceRegistry \cup {"device_gone"}

\* call.data['side']: one id or a list of ids
SideArgs ==
  [type : {"str"}, value : SideIds]
  \cup {[type |-> "list", value |-> l] :
          l \in UNION {[1..n -> SideIds] : n \in 1..MaxSides}}

\* call.data.get('day_of_week', DAYS_OF_WEEK): absent, one day, or a list
DayArgs ==
  {[type |-> "absent"], [type |-> "str", value |-> "monday"],
   [type |-> "list", value |-> <<"saturday", "sunday">>]}

\* the schedules a call carries
ServiceSchedules ==
  {("alarm" :> ("alarmTemperature" :> 2000)) @@ ("power" :> Empty),
   "temperatures" :> ("08:00" :> 1850)}

\* FreeSleepAPI.update_schedule
update_schedule(response) == post(response)

\* the body Side.set_schedule posts: the schedule for each of the days,
\* under the side
set_schedule_json(type, days_of_week, schedule) ==
  type :> [d \in {days_of_week[i] : i \in 1..Len(days_of_week)}
             |-> schedule]

\* the sides of the pods of hass.data whose identifiers are those of the
\* device
MatchingSides(side) ==
  {ps \in (DOMAIN hassData) \X PodSides :
     SideIdentifiers(hassData[ps[1]].pod, ps[2]) = side.identifiers}

\* the loop of handle_set_schedule at side_ids[i]: the id is looked up; a
\* side of a pod that has the identifiers of the device is sent the
\* schedule
ServiceAt(s, i) ==
  IF i > Len(s.side_ids)
  THEN [s EXCEPT !.pc = "done", !.i = i]
  ELSE LET side == registry_async_get(s.side_ids[i]) IN
         IF IsNone(side)
         THEN [s EXCEPT !.pc = "done", !.i = i, !.raised = "ValueError"]
         ELSE IF MatchingSides(side) = {}
         THEN [s EXCEPT !.pc = "loop", !.i = i + 1]
         ELSE LET ps == CHOOSE x \in MatchingSides(side) : TRUE IN
                [s EXCEPT
                   !.pc = "posting", !.i = i,
                   !.calls = Append(@,
                     [method |-> "POST", url |-> SCHEDULES_ENDPOINT,
                      json |-> set_schedule_json(ps[2], s.days_of_week,
                                                 s.schedule)])]

\* handle_set_schedule is called and runs up to its first await
ServiceCall(sides, days, unit, schedule) ==
  /\ svc = NoCall
  /\ LET s == [pc |-> "loop", i |-> 1,
               side_ids |-> IF sides.type = "str" THEN <<sides.value>>
                            ELSE sides.value,
               days_of_week |-> CASE days.type = "absent" -> DAYS_OF_WEEK
                                  [] days.type = "str" -> <<days.value>>
                                  [] OTHER -> days.value,
               schedule |-> schedule_to_fahrenheit(unit, schedule).returned,
               calls |-> <<>>, applied |-> <<>>, raised |-> "none"]
     IN svc' = s
  /\ UNCHANGED <<dev, devEpoch, coordVars, wr, budget, fwVars, apiCall,
                 utilVars, auxVars, callers, hassData, entry>>

\* the loop goes on to the next side id
ServiceLoop ==
  /\ svc # NoCall
  /\ svc.pc = "loop"
  /\ svc' = ServiceAt(svc, svc.i)
  /\ UNCHANGED <<dev, devEpoch, coordVars, wr, budget, fwVars, apiCall,
                 utilVars, auxVars, callers, hassData, entry>>

\* the device answers the request of set_schedule; an exception of
\* update_schedule leaves the handler
ServiceDevice(response) ==
  /\ svc # NoCall
  /\ svc.pc = "posting"
  /\ LET r == update_schedule(response)
         sent == svc.calls[Len(svc.calls)].json
         applied == IF Applies(response)
                    THEN Append(svc.applied, sent) ELSE svc.applied IN
       svc' = IF r.ok
              THEN [svc EXCEPT !.pc = "loop", !.i = @ + 1,
                               !.applied = applied]
              ELSE [svc EXCEPT !.pc = "done", !.raised = r.err,
                               !.applied = applied]
  /\ UNCHANGED <<dev, devEpoch, coordVars, wr, budget, fwVars, apiCall,
                 utilVars, auxVars, callers, hassData, entry>>

\* the state once async_setup_entry has returned: the first refresh has
\* succeeded and the entities have been added
InitCommon ==
  /\ dev = [status |-> mock_device_status, settings |-> mock_settings]
  /\ devEpoch = 0
  /\ data = FirstSnapshot
  /\ last_update_success = TRUE
  /\ rpc = "idle"
  /\ fetchRes = IdleFetches
  /\ gatherExc = "none"
  /\ lastRefresh = FirstRefresh
  /\ wr = [pc |-> "idle", last |-> NeverWritten]
  /\ seen = NotifyAll(FirstSnapshot)
  /\ notifyCount = 0
  /\ prov = FirstProvenance
  /\ fwpc = "idle"
  /\ fwRes = IdleFwFetches
  /\ fwData = NoneValue
  /\ fwLast = [raised |-> "never", cause |-> "none"]
  /\ apiCall = NoCall
  /\ conv = NoCall
  /\ scheduleCalls = <<>>
  /\ setupCall = NoCall
  /\ reader = NoReader
  /\ callers = [c \in Callers |-> IdleCaller]
  /\ svc = NoCall
  /\ hassData = ENTRY_ID :> Pair(ENTRY_ID)
  /\ entry = [state |-> "loaded", pc |-> "idle"]

Refresh ==
  \/ RefreshStart
  \/ \E f \in Fetches : \E response \in FetchResponses(f) :
       FetchDone(f, response)
  \/ RefreshResume

Write ==
  \/ \E kind \in Kinds : \E side \in TargetsOf(kind) :
       \E value \in ValuesOf(kind) : WriteStart(kind, side, value)
  \/ \E response \in WriteResponses : DeviceHandle(response)
  \/ WriteReturn

Firmware ==
  \/ FwStart
  \/ \E f \in FwFetches : \E response \in FwResponses(f) :
       FwFetchDone(f, response)
  \/ FwResume

\* the device-state coordinator and the write-through actions
Init ==
  /\ InitCommon
  /\ scheduleObject = Empty
  /\ budget = [refreshes |-> MaxRefreshes, writes |-> MaxWrites,
               firmware |-> 0,
               reads |-> 0]

Next == Refresh \/ Write

Spec == Init /\ [][Next]_vars

\* the two coordinators side by side
InitFw ==
  /\ InitCommon
  /\ scheduleObject = Empty
  /\ budget = [refreshes |-> MaxRefreshes, writes |-> 0,
               firmware |-> MaxFirmwareRefreshes, reads |-> 0]

NextFw == Refresh \/ Firmware

SpecFw == InitFw /\ [][NextFw]_vars

\* the device-state coordinator, the write-through actions and a reader
InitReader ==
  /\ InitCommon
  /\ scheduleObject = Empty
  /\ budget = [refreshes |-> MaxRefreshes, writes |-> MaxWrites,
               firmware |-> 0, reads |-> MaxReads]

NextReader == Refresh \/ Write \/ ReaderGet

SpecReader == InitReader /\ [][NextReader]_vars

\* the client on its own
InitApi ==
  /\ InitCommon
  /\ scheduleObject = Empty
  /\ budget = [refreshes |-> 0, writes |-> 0, firmware |-> 0,
               reads |-> 0]

NextApi ==
  \/ \E response \in Responses : ApiGet(response)
  \/ \E response \in Responses : ApiPost(response)
  \/ \E host \in Hosts : \E response \in SetupResponses :
       ValidateSetup(host, response)

SpecApi == InitApi /\ [][NextApi]_vars

\* the conversions of utils.py on their own
InitUtil ==
  /\ InitCommon
  /\ scheduleObject \in Schedules
  /\ budget = [refreshes |-> 0, writes |-> 0, firmware |-> 0,
               reads |-> 0]

NextUtil ==
  \/ \E unit \in Units : \E value \in ValuesOfUnit(unit) :
       UnitToFahrenheit(unit, value)
  \/ \E unit \in Units : ScheduleToFahrenheit(unit)

SpecUtil == InitUtil /\ [][NextUtil]_vars

\* two tasks, each of them calling a write-through helper
InitWriters ==
  /\ InitCommon
  /\ scheduleObject = Empty
  /\ budget = [refreshes |-> 0, writes |-> 0, firmware |-> 0,
               reads |-> 0]

NextWriters ==
  \E c \in Callers :
    \/ \E kind \in Kinds : \E side \in TargetsOf(kind) :
         \E value \in ValuesOf(kind) : HelperCall(c, kind, side, value)
    \/ \E response \in WriteResponses : CallerDevice(c, response)
    \/ CallerReturn(c)

SpecWriters == InitWriters /\ [][NextWriters]_vars

\* the times of day the time entity is set to next to the refreshes
EntityTimes ==
  {t \in Times : t.hour \in {6, 23} /\ t.minute = 5 /\ t.second = 59}

\* the coordinator and one task that calls an action of the climate
\* entities or of the time entity
InitEntity ==
  /\ InitCommon
  /\ scheduleObject = Empty
  /\ budget = [refreshes |-> MaxRefreshes, writes |-> 0, firmware |-> 0,
               reads |-> 0]

NextEntity ==
  \/ Refresh
  \/ \E action \in ClimateActions : \E side \in PodSides :
       \E arg \in ArgsOf(action) : ClimateCall("a", action, side, arg)
  \/ \E value \in EntityTimes : TimeCall("a", value)
  \/ \E response \in WriteResponses : CallerDevice("a", response)
  \/ CallerReturn("a")

SpecEntity == InitEntity /\ [][NextEntity]_vars

\* the time entity on its own, set to every time of day
InitTime ==
  /\ InitCommon
  /\ scheduleObject = Empty
  /\ budget = [refreshes |-> 0, writes |-> 0, firmware |-> 0,
               reads |-> 0]

NextTime ==
  \/ \E value \in Times : TimeCall("a", value)
  \/ \E response \in WriteResponses : CallerDevice("a", response)
  \/ CallerReturn("a")

SpecTime == InitTime /\ [][NextTime]_vars

\* the set_schedule service, called once
InitService ==
  /\ InitCommon
  /\ scheduleObject = Empty
  /\ budget = [refreshes |-> 0, writes |-> 0, firmware |-> 0,
               reads |-> 0]

NextService ==
  \/ \E sides \in SideArgs : \E days \in DayArgs : \E unit \in Units :
       \E schedule \in ServiceSchedules :
         ServiceCall(sides, days, unit, schedule)
  \/ ServiceLoop
  \/ \E response \in WriteResponses : ServiceDevice(response)

SpecService == InitService /\ [][NextService]_vars

\* the config entry from before its setup: nothing is stored in hass.data
\* and the coordinator has no data. The first refresh, of the setup, comes
\* on top of the refreshes of the loaded entry
InitSetup ==
  /\ dev = [status |-> mock_device_status, settings |-> mock_settings]
  /\ devEpoch = 0
  /\ data = NoneValue
  /\ last_update_success = TRUE
  /\ rpc = "idle"
  /\ fetchRes = IdleFetches
  /\ gatherExc = "none"
  /\ lastRefresh = [raised |-> "never"]
  /\ wr = [pc |-> "idle", last |-> NeverWritten]
  /\ seen = NotifyAll(NoneValue)
  /\ notifyCount = 0
  /\ prov = [FirstProvenance EXCEPT !.lastStore = "none"]
  /\ fwpc = "idle"
  /\ fwRes = IdleFwFetches
  /\ fwData = NoneValue
  /\ fwLast = [raised |-> "never", cause |-> "none"]
  /\ apiCall = NoCall
  /\ conv = NoCall
  /\ scheduleObject = Empty
  /\ scheduleCalls = <<>>
  /\ setupCall = NoCall
  /\ reader = NoReader
  /\ callers = [c \in Callers |-> IdleCaller]
  /\ svc = NoCall
  /\ hassData = Empty
  /\ entry = [state |-> "not_loaded", pc |-> "idle"]
  /\ budget = [refreshes |-> 1 + MaxRefreshes, writes |-> 0, firmware |-> 0,
               reads |-> 0]

NextSetup ==
  \/ SetupEntry
  \/ \E response \in EntryStatusResponses : SetupStatus(response)
  \/ RefreshAllowed /\ Refresh
  \/ SetupRefreshed
  \/ SetupForwarded
  \/ UnloadEntry
  \/ \E unload_ok \in BOOLEAN : UnloadPlatforms(unload_ok)

SpecSetup == InitSetup /\ [][NextSetup]_vars

----------------------------------------------------------------------------
(* Properties *)

\* the steps the properties are about
RefreshEnds == rpc = "gather" /\ rpc' = "idle"
WriteEnds == wr.pc = "responded" /\ wr'.pc = "idle"
WriteSucceeds == WriteEnds /\ wr'.last.raised = "none"

\* C1: a device-state refresh in which any of the five fetches has failed
\* raises UpdateFailed and leaves the stored snapshot as it was; the refresh
\* stores a snapshot, the one built from the five results, only when all five
\* fetches have succeeded.
C1_RefreshAllOrNothing ==
  [][RefreshEnds =>
       IF \E f \in Fetches : fetchRes[f].st # "done"
       THEN lastRefresh'.raised = "UpdateFailed" /\ data' = data
       ELSE /\ lastRefresh'.raised = "none"
            /\ data' = PodState(fetchRes["services"].value,
                                fetchRes["settings"].value,
                                fetchRes["status"].value,
                                [left  |-> fetchRes["vitals_left"].value,
                                 right |-> fetchRes["vitals_right"].value])
    ]_vars

\* a refresh has failed and the snapshot stored is one a write-through has
\* patched before
C1_Witness ==
  /\ rpc = "idle"
  /\ lastRefresh.raised = "UpdateFailed"
  /\ prov.lastStore = "patch"
  /\ data # FirstSnapshot

\* C2: when set_target_temperature(t) succeeds on a side, the target
\* temperature the climate entity of that side reads from the snapshot is t.
C2_TargetTemperatureCached ==
  [][(WriteSucceeds /\ wr.kind = "set_target_temperature") =>
       /\ HasKey(data'.status, wr.side)
       /\ target_temperature(wr.side, data') = wr.value
    ]_vars

\* C3: a write-through action whose transport call fails raises that error,
\* leaves the snapshot as it was and notifies no observer.
C3_FailedWriteLeavesCache ==
  [][(WriteEnds /\ ~post(wr.response).ok) =>
       /\ wr'.last.raised = post(wr.response).err
       /\ data' = data
       /\ seen' = seen
       /\ notifyCount' = notifyCount
    ]_vars

\* a write-through has failed in its transport call
C3_Witness ==
  /\ wr.pc = "idle"
  /\ wr.last.raised \in {"ClientResponseError", "TimeoutError"}

\* C4: a successful set_active(v) on a side has issued one transport call,
\* the POST of {side: {isOn: v}} to the status endpoint, and the snapshot's
\* status[side].isOn is v when it returns.
C4_SetActiveOneCall ==
  [][(WriteSucceeds /\ wr.kind = "set_active") =>
       /\ wr.calls = <<[method |-> "POST", url |-> DEVICE_STATUS_ENDPOINT,
                        json |-> wr.side :> ("isOn" :> wr.value)]>>
       /\ data'.status[wr.side].isOn = wr.value
    ]_vars

\* set_active(False) on the left side has succeeded
C4_Witness ==
  /\ wr.pc = "idle"
  /\ wr.last.raised = "none"
  /\ prov.lastStore = "patch"
  /\ prov.patch.resource = "status"
  /\ HasKey(data.status, "left")
  /\ data.status["left"].isOn = FALSE

\* C5: the status, settings and vitals parts of a stored snapshot each have
\* the entries of both sides.
C5_BothSidesPresent ==
  ~IsNone(data) =>
    \A part \in {"status", "settings", "vitals"} :
      PodSides \subseteq DOMAIN data[part]

\* C6: once a refresh and a write-through have both completed, a snapshot
\* that a refresh stored after the patch holds what that refresh read from
\* the patched resource after the device applied the write.
C6_RefreshKeepsPatch ==
  (/\ rpc = "idle"
   /\ wr.pc = "idle"
   /\ prov.patch.resource # "none"
   /\ prov.lastStore = "refresh")
  => prov.readEpoch[prov.patch.resource] >= prov.patch.epoch

\* C7: a firmware refresh that fails changes nothing of the device-state
\* coordinator and a device-state refresh that fails changes nothing of the
\* firmware coordinator; a refresh of either coordinator can start whatever
\* the other coordinator is doing.
C7_IndependentCoordinators ==
  /\ [][/\ (fwpc = "gather" /\ fwpc' = "idle"
            /\ fwLast'.raised = "UpdateFailed")
           => UNCHANGED <<data, last_update_success, lastRefresh, rpc,
                          fetchRes, gatherExc, seen, notifyCount>>
        /\ (RefreshEnds /\ lastRefresh'.raised = "UpdateFailed")
           => UNCHANGED <<fwData, fwLast, fwpc, fwRes>>
       ]_vars
  /\ [](/\ (rpc = "idle" /\ budget.refreshes > 0) => ENABLED RefreshStart
        /\ (fwpc = "idle" /\ budget.firmware > 0) => ENABLED FwStart)

\* a firmware refresh has failed, the device-state refresh that ran has
\* succeeded, and a firmware snapshot of an earlier refresh is still stored
C7_Witness ==
  /\ fwpc = "idle"
  /\ fwLast.raised = "UpdateFailed"
  /\ rpc = "idle"
  /\ budget.refreshes < MaxRefreshes
  /\ lastRefresh.raised = "none"
  /\ last_update_success

\* C8: a refresh that succeeds and a write-through that succeeds each notify
\* every observer with the snapshot that is stored then; a write-through
\* that fails notifies no observer.
C8_ObserversNotified ==
  [][/\ (RefreshEnds /\ lastRefresh'.raised = "none")
        => /\ notifyCount' = notifyCount + 1
           /\ \A o \in Observers : seen'[o] = data'
     /\ WriteSucceeds
        => /\ notifyCount' = notifyCount + 1
           /\ \A o \in Observers : seen'[o] = data'
     /\ (WriteEnds /\ wr'.last.raised # "none")
        => /\ notifyCount' = notifyCount
           /\ seen' = seen
    ]_vars

\* a refresh and a write-through have both succeeded and the observers hold
\* the patched snapshot
C8_Witness ==
  /\ wr.pc = "idle"
  /\ wr.last.raised = "none"
  /\ budget.refreshes < MaxRefreshes
  /\ lastRefresh.raised = "none"
  /\ prov.lastStore = "patch"
  /\ notifyCount = 2
  /\ \A o \in Observers : seen[o] = data

\* C9: get and post return the empty mapping, and no error, for a response
\* with status 204, and do not parse its body.
C9_NoContentIsEmpty ==
  (/\ apiCall.method # "none"
   /\ apiCall.response.net = "response"
   /\ apiCall.response.status = 204)
  => /\ apiCall.result.ok
     /\ apiCall.result.value = Empty
     /\ ~apiCall.result.parsed

\* post has returned for a 204 response whose body is not JSON
C9_Witness ==
  /\ apiCall.method = "POST"
  /\ apiCall.response.net = "response"
  /\ apiCall.response.status = 204
  /\ apiCall.response.body = "malformed"
  /\ apiCall.result.ok

\* C10: get and post raise the request-failed error for every response whose
\* status is not 2xx, return no data and do not parse the body.
C10_NonSuccessRaises ==
  (/\ apiCall.method # "none"
   /\ apiCall.response.net = "response"
   /\ apiCall.response.status \notin 200..299)
  => /\ ~apiCall.result.ok
     /\ apiCall.result.err = "ClientResponseError"
     /\ apiCall.result.value = Empty
     /\ ~apiCall.result.parsed

\* C11: get and post return the empty mapping, and no error, for a 2xx
\* response other than 204 whose body cannot be parsed as JSON.
C11_UnparseableIsEmpty ==
  (/\ apiCall.method # "none"
   /\ apiCall.response.net = "response"
   /\ apiCall.response.status \in 200..299
   /\ apiCall.response.status # 204
   /\ apiCall.response.body # "json")
  => /\ apiCall.result.ok
     /\ apiCall.result.value = Empty

\* the exact conversion of the last call of unit_to_fahrenheit, in
\* thousandths of a degree Fahrenheit
ExactThousandths ==
  IF conv.unit = "KELVIN"
  THEN (conv.value - 27315) * 18 + 32000
  ELSE conv.value * 18 + 32000

\* C12: for a Celsius input and for a Kelvin input unit_to_fahrenheit
\* returns an integer, and no integer is nearer to the exact conversion
\* c * 1.8 + 32, or (k - 273.15) * 1.8 + 32, than the one it returns.
C12_NearestInteger ==
  (conv.method = "unit_to_fahrenheit" /\ conv.unit \in {"CELSIUS", "KELVIN"})
  => /\ conv.result % Hundredths = 0
     /\ conv.result * 10 - ExactThousandths \in -500..500

\* 2.5 C, whose exact conversion 36.5 F lies halfway between two integers,
\* has been converted
C12_Witness ==
  /\ conv.method = "unit_to_fahrenheit"
  /\ conv.unit = "CELSIUS"
  /\ conv.value = 250
  /\ conv.result \in {3600, 3700}

\* C13: for a Fahrenheit input unit_to_fahrenheit returns the input
\* unchanged, whether or not it is a whole number of degrees.
C13_FahrenheitIdentity ==
  (conv.method = "unit_to_fahrenheit" /\ conv.unit = "FAHRENHEIT")
  => conv.result = conv.value

Calls == 1..Len(scheduleCalls)

\* C14: under the Fahrenheit unit schedule_to_fahrenheit returns a schedule
\* equal to the schedule passed to it, whatever keys and values it has.
C14_FahrenheitNoOp ==
  \A i \in Calls :
    scheduleCalls[i].unit = "FAHRENHEIT"
    => scheduleCalls[i].returned = scheduleCalls[i].schedule

\* a schedule with alarm, power, temperatures and a further key, one of its
\* temperatures not a whole number, has been converted under Fahrenheit
C14_Witness ==
  \E i \in Calls :
    LET call == scheduleCalls[i] IN
      /\ call.unit = "FAHRENHEIT"
      /\ DOMAIN call.schedule =
           {"alarm", "power", "temperatures", "elevations"}
      /\ HasKey(call.schedule["alarm"], "alarmTemperature")
      /\ HasKey(call.schedule["power"], "onTemperature")
      /\ call.schedule["power"]["onTemperature"] = 7050
      /\ call.schedule["temperatures"] # Empty
      /\ call.returned = call.schedule

\* the object under key of the result, given the object of the input: only
\* the item named field is converted
ConvertedItem(unit, obj, field) ==
  [k \in DOMAIN obj |->
     IF k = field THEN unit_to_fahrenheit(unit, obj[k]) ELSE obj[k]]

\* C15: under Celsius or Kelvin the result has the keys of the input at
\* every level; alarm.alarmTemperature, power.onTemperature and every value
\* of temperatures are the unit_to_fahrenheit conversions of the input's,
\* and every other item is the input's; an absent or empty alarm, power or
\* temperatures stays absent or empty.
C15_ConvertsOnlyTemperatures ==
  \A i \in Calls :
    LET call == scheduleCalls[i]
        in == call.schedule
        out == call.returned
    IN call.unit # "FAHRENHEIT"
       => /\ DOMAIN out = DOMAIN in
          /\ \A k \in DOMAIN in :
               out[k] =
                 IF k = "alarm"
                 THEN ConvertedItem(call.unit, in[k], "alarmTemperature")
                 ELSE IF k = "power"
                 THEN ConvertedItem(call.unit, in[k], "onTemperature")
                 ELSE IF k = "temperatures"
                 THEN [t \in DOMAIN in[k] |->
                         unit_to_fahrenheit(call.unit, in[k][t])]
                 ELSE in[k]

\* a schedule with an alarm temperature, an empty power, a further key and
\* no temperatures has been converted under Celsius, and the same schedule
\* has then been converted under Kelvin
C15_Witness ==
  /\ Len(scheduleCalls) = 2
  /\ scheduleCalls[2].unit = "KELVIN"
  /\ LET call == scheduleCalls[1] IN
       /\ call.unit = "CELSIUS"
       /\ DOMAIN call.schedule = {"alarm", "power", "elevations"}
       /\ HasKey(call.schedule["alarm"], "alarmTemperature")
       /\ call.schedule["alarm"]["alarmTemperature"] = 2000
       /\ call.schedule["power"] = Empty
       /\ call.returned["alarm"]["alarmTemperature"] = 6800
       /\ call.returned["alarm"]["time"] = "07:00"
       /\ call.returned["power"] = Empty

\* C16: a call of schedule_to_fahrenheit leaves the schedule passed to it
\* as it was, at every level, and two calls with the same schedule object
\* and the same unit return equal results.
C16_InputUnchanged ==
  /\ \A i \in Calls :
       scheduleCalls[i].schedule =
         IF i = Len(scheduleCalls) THEN scheduleObject
         ELSE scheduleCalls[i + 1].schedule
  /\ \A i, j \in Calls :
       scheduleCalls[i].unit = scheduleCalls[j].unit
       => scheduleCalls[i].returned = scheduleCalls[j].returned

\* the device status request of the last validate_setup call has failed
SetupRequestFails ==
  \/ setupCall.response.net # "response"
  \/ setupCall.response.status \notin 200..299

\* C17: validate_setup fails with invalid_url, and issues no HTTP request,
\* for a host that is not a well-formed http or https URL; for a
\* well-formed URL it issues the device status request, fails with
\* cannot_connect when the request fails, and otherwise returns hubVersion
\* together with the input it was given.
C17_UrlCheckedFirst ==
  setupCall.method = "validate_setup"
  => LET host == setupCall.user_input["host"]
         result == setupCall.result
     IN IF ~is_url(host)
        THEN result.raised = "invalid_url" /\ result.requests = 0
        ELSE IF SetupRequestFails
        THEN result.raised = "cannot_connect" /\ result.requests = 1
        ELSE /\ result.raised = "none"
             /\ result.requests = 1
             /\ result.name = setupCall.response.payload["hubVersion"]
             /\ result.config = setupCall.user_input

\* 'ftp://example.com' has been rejected while the device would not have
\* answered
C17_Witness ==
  /\ setupCall.method = "validate_setup"
  /\ setupCall.user_input["host"] = Host("ftp", "example.com")
  /\ setupCall.response.net = "timeout"
  /\ setupCall.result.raised = "invalid_url"
  /\ setupCall.result.requests = 0

\* the state the five results of the refresh in flight make up
FetchedState ==
  PodState(ValueOrEmpty(fetchRes, "services"),
           ValueOrEmpty(fetchRes, "settings"),
           ValueOrEmpty(fetchRes, "status"),
           [left  |-> ValueOrEmpty(fetchRes, "vitals_left"),
            right |-> ValueOrEmpty(fetchRes, "vitals_right")])

\* the item of the snapshot each write-through action assigns
PatchPath(kind, side) ==
  CASE kind = "set_active"             -> <<"status", side, "isOn">>
    [] kind = "set_target_temperature" ->
         <<"settings", side, "targetTemperatureF">>
    [] kind = "set_away_mode"          -> <<"settings", side, "awayMode">>
    [] kind = "set_prime_daily"        ->
         <<"settings", "primePodDaily", "enabled">>
    [] kind = "set_prime_daily_time"   ->
         <<"settings", "primePodDaily", "time">>
    [] kind = "set_reboot_daily"       -> <<"settings", "rebootDaily">>
    [] OTHER                           ->
         <<"status", "settings", "ledBrightness">>

\* d with the item at path overwritten by v and everything else as in d
RECURSIVE Overwritten(_, _, _)
Overwritten(d, path, v) ==
  IF Len(path) = 1
  THEN DictSet(d, path[1], v)
  ELSE DictSet(d, path[1], Overwritten(d[path[1]], Tail(path), v))

\* C18: the stored snapshot is the result of whichever of a refresh and a
\* write-through patch stored last.  A refresh that completes stores the
\* state it fetched, whether or not a patch was stored while it was in
\* flight; a patch that is applied stores the snapshot it finds (the
\* refresh's, when the refresh completed before) with the patched item
\* overwritten, whether or not a refresh is in flight.
C18_LastWriterWins ==
  [][/\ (RefreshEnds /\ lastRefresh'.raised = "none")
        => /\ data' = FetchedState
           /\ prov'.lastStore = "refresh"
     /\ WriteSucceeds
        => /\ data' = Overwritten(data, PatchPath(wr.kind, wr.side),
                                  wr.value)
           /\ prov'.lastStore = "patch"
    ]_vars

\* a refresh and a write-through action have overlapped and both have
\* completed: the refresh read the patched resource before the device
\* applied the write, and stored its state after the patch
C18_Witness ==
  /\ rpc = "idle"
  /\ budget.refreshes < MaxRefreshes
  /\ lastRefresh.raised = "none"
  /\ wr.pc = "idle"
  /\ wr.last.raised = "none"
  /\ prov.lastStore = "refresh"
  /\ prov.patch.resource # "none"
  /\ prov.readEpoch[prov.patch.resource] < prov.patch.epoch

\* the refresh in flight read both resources of the device after the last
\* write, and no write is in progress or still to come
ReadAfterWrites ==
  /\ wr.pc = "idle"
  /\ budget.writes = 0
  /\ ReadAt(fetchRes, "status") = devEpoch
  /\ ReadAt(fetchRes, "settings") = devEpoch

\* C20: once the writes are over, a refresh that reads the device after
\* them and succeeds leaves the status and the settings of the snapshot
\* equal to those of the device, whatever the snapshot was before.
C20_RefreshHeals ==
  [][(RefreshEnds /\ lastRefresh'.raised = "none" /\ ReadAfterWrites)
     => /\ data'.status = dev'.status
        /\ data'.settings = dev'.settings
    ]_vars

\* the item of the snapshot that corresponds to the item of the device the
\* body json of a write sets: the resource posted to, then the keys of json
PostedPath(kind, json) ==
  LET k == CHOOSE x \in DOMAIN json : TRUE
  IN IF k \in ScalarKeys
     THEN <<ResourceOf(kind), k>>
     ELSE <<ResourceOf(kind), k, CHOOSE j \in DOMAIN json[k] : TRUE>>

RECURSIVE HasPath(_, _)
HasPath(d, path) ==
  \/ path = <<>>
  \/ /\ HasKey(d, path[1])
     /\ HasPath(d[path[1]], Tail(path))

\* C21: a write-through action that succeeds changes one item of the
\* snapshot, the one that corresponds to the item it wrote to the device
\* (of its own side, where the action is per side); that item was in the
\* snapshot before, and everything else in the snapshot is as it was.
C21_OneFieldPatched ==
  [][WriteSucceeds
     => LET path == PostedPath(wr.kind, wr.calls[1].json) IN
          /\ HasPath(data, path)
          /\ data' = Overwritten(data, path, wr.value)
    ]_vars

\* C22: the object a reader obtained from coordinator.data holds, whatever
\* write-through patch has been stored since, what it held when the reader
\* obtained it.
C22_PatchLeavesOldSnapshot ==
  reader.held => reader.value = reader.obtained

FwEnds == fwpc = "gather" /\ fwpc' = "idle"

\* C23: a firmware refresh in which the fetch of the current version or of
\* the latest version has failed raises UpdateFailed with the exception of
\* a failed fetch as its cause and leaves the stored firmware snapshot as it
\* was; a refresh stores a snapshot, made of the two versions it fetched
\* itself, only when both fetches have succeeded.
C23_FirmwareAllOrNothing ==
  [][FwEnds
     => IF FwFailed
        THEN /\ fwLast'.raised = "UpdateFailed"
             /\ \E f \in FwFetches :
                  fwRes[f].st = "failed" /\ fwLast'.cause = fwRes[f].err
             /\ fwData' = fwData
        ELSE /\ fwLast'.raised = "none"
             /\ fwData' = FirmwareState(fwRes["current_version"].value,
                                        fwRes["latest_version"].value)
    ]_vars

\* a firmware refresh has stored a snapshot and a later one, in which the
\* latest version was fetched and the current version was not, has failed
C23_Witness ==
  /\ fwpc = "idle"
  /\ budget.firmware = 0
  /\ fwLast.raised = "UpdateFailed"
  /\ ~IsNone(fwData)
  /\ fwData.latest_version \in LatestVersions

\* the transport call of the write in progress has returned without raising
TransportReturns ==
  /\ wr.pc = "responded"
  /\ IF ResourceOf(wr.kind) = "status"
     THEN update_device_status(wr.response).ok
     ELSE update_settings(wr.response).ok

\* C24: when the transport call of a write-through action returns, the
\* action patches the snapshot that is stored at that moment, whether a
\* refresh has replaced it during the call or not: the snapshot stored
\* afterwards is that snapshot with the patched item set to the written
\* value.
C24_PatchLandsOnStored ==
  [][(WriteEnds /\ TransportReturns)
     => LET path == PatchPath(wr.kind, wr.side) IN
          /\ HasPath(data, SubSeq(path, 1, Len(path) - 1))
          /\ data' = Overwritten(data, path, wr.value)
    ]_vars

RECURSIVE ItemAt(_, _)
ItemAt(d, path) ==
  IF path = <<>> THEN d ELSE ItemAt(d[path[1]], Tail(path))

\* C25: when two write-through helpers that patch different items of the
\* snapshot have been called by two tasks, in whatever order their steps
\* were taken, and both have returned without an exception with no refresh
\* in between, the stored snapshot holds the value of each at its item.
C25_BothPatchesVisible ==
  LET a == callers["a"]
      b == callers["b"] IN
    (/\ a.pc = "done"
     /\ b.pc = "done"
     /\ PatchPath(a.kind, a.side) # PatchPath(b.kind, b.side))
    => /\ HasPath(data, PatchPath(a.kind, a.side))
       /\ ItemAt(data, PatchPath(a.kind, a.side)) = a.value
       /\ HasPath(data, PatchPath(b.kind, b.side))
       /\ ItemAt(data, PatchPath(b.kind, b.side)) = b.value

\* set_prime_daily and set_prime_daily_time, which patch the same nested
\* dict, have overlapped and succeeded: the device handled the request of
\* the first before that of the second, and the first patched last
C25_Witness ==
  /\ callers["a"].pc = "done"
  /\ callers["b"].pc = "done"
  /\ callers["a"].kind = "set_prime_daily"
  /\ callers["b"].kind = "set_prime_daily_time"
  /\ callers["a"].epoch < callers["b"].epoch
  /\ prov.patch.epoch = callers["a"].epoch

\* the transport call of a helper of this kind returns on this answer
TransportOk(kind, response) ==
  IF ResourceOf(kind) = "status"
  THEN update_device_status(response).ok
  ELSE update_settings(response).ok

\* C26: a climate action or the set-value action of the time entity calls
\* coordinator.async_request_refresh() once, and not before its helper has
\* written to the device and patched the snapshot; an action whose write
\* raises requests no refresh. (async_set_temperature without a temperature
\* writes nothing and only requests the refresh.)
C26_RefreshAfterWriteThrough ==
  [][\A c \in Callers :
       LET r == callers[c]
           q == callers'[c] IN
         /\ q.requests > r.requests
            => /\ q.pc = "done"
               /\ q.requests = 1
               /\ q.action \in EntityActions
               /\ \/ /\ r.pc = "idle"
                     /\ q.action = "async_set_temperature"
                     /\ ~HasKey(q.arg, "temperature")
                  \/ /\ r.pc = "responded"
                     /\ TransportOk(r.kind, r.response)
                     /\ Applies(r.response)
                     /\ HasPath(data', PatchPath(r.kind, r.side))
                     /\ ItemAt(data', PatchPath(r.kind, r.side)) = r.value
         /\ (q.pc = "done" /\ q.action \in EntityActions) => q.requests = 1
         /\ q.pc = "raised" => q.requests = 0
    ]_vars

\* async_turn_off of the left side has written to the device, patched the
\* snapshot and then requested a refresh
C26_Witness ==
  /\ callers["a"].pc = "done"
  /\ callers["a"].action = "async_turn_off"
  /\ callers["a"].side = "left"
  /\ callers["a"].requests = 1
  /\ prov.lastStore = "patch"
  /\ ~data.status.left.isOn
  /\ ~dev.status.left.isOn

ModeActions == {"async_set_hvac_mode", "async_turn_on", "async_turn_off"}

\* the mode an action asks for
ModeOf(r) ==
  CASE r.action = "async_set_hvac_mode" -> r.arg
    [] r.action = "async_turn_on"       -> "heat_cool"
    [] OTHER                            -> "off"

OtherSide(side) == IF side = "left" THEN "right" ELSE "left"

C29_TimeRoundTrip ==
  \A c \in Callers :
    LET r == callers[c] IN
      (/\ r.pc = "done"
       /\ r.action = "async_set_value"
       /\ prov.lastStore = "patch")
      => /\ native_value(data)
              = Returned([hour |-> r.arg.hour, minute |-> r.arg.minute,
                          second |-> 0])
         /\ LET posted == r.calls[1].json.primePodDaily.time IN
              /\ Len(posted) = 5
              /\ SubSeq(posted, 3, 3) = ":"
              /\ IsInt(SubSeq(posted, 1, 2))
              /\ int(SubSeq(posted, 1, 2)) = r.arg.hour
              /\ IsInt(SubSeq(posted, 4, 5))
              /\ int(SubSeq(posted, 4, 5)) = r.arg.minute

\* async_set_value(07:05:59) has succeeded: 07:05 was posted and stored
C29_Witness ==
  /\ callers["a"].pc = "done"
  /\ callers["a"].action = "async_set_value"
  /\ callers["a"].arg = [hour |-> 7, minute |-> 5, second |-> 59]
  /\ dev.settings.primePodDaily.time = "07:05"
  /\ data.settings.primePodDaily.time = "07:05"
  /\ native_value(data).data.second = 0

\* C27: when a call of set_schedule names a side id that is not in the
\* device registry, the call ends with an exception and has sent no
\* schedule to any device.
C27_ScheduleAllOrNothing ==
  (/\ svc # NoCall
   /\ svc.pc = "done"
   /\ \E i \in 1..Len(svc.side_ids) :
        IsNone(registry_async_get(svc.side_ids[i])))
  => /\ svc.raised # "none"
     /\ svc.calls = <<>>
     /\ svc.applied = <<>>

\* the setup of the entry has returned True, first refresh included, and
\* no unload of it has succeeded since
SetUp == entry.state \in {"loaded", "failed_unload"}

\* C30: whenever no setup and no unload of the entry is in progress,
\* hass.data holds the pair of the entry exactly if the setup of the entry
\* has succeeded, first refresh included, and the entry has not been
\* unloaded successfully since.
C30_PairIffSetUp ==
  entry.pc = "idle" => (HasKey(hassData, ENTRY_ID) <=> SetUp)

====
